---- MODULE Spec2Model ----
(***************************************************************************)
(* Challenge instancer (big-red-ctfd/instancer/app.py): the lifecycle of   *)
(* per-user container instances.  Request threads (Flask serves one thread *)
(* per request) run create_challenge_instance, delete_instance and         *)
(* get_instance_stats, and one daemon thread runs                          *)
(* cleanup_expired_instances every 30 seconds.  They share the             *)
(* instancer_instances table and the Azure container groups.               *)
(* One action is one step of a handler between two accesses to shared      *)
(* state (one SQL statement, or one Azure call).                           *)
(***************************************************************************)
EXTENDS Integers, Sequences, FiniteSets

(***************************************************************************)
(* Bounds of the model.                                                    *)
(***************************************************************************)
\* create requests over a run
MaxCalls == 2
\* create requests of a burst
BurstCalls == 3
\* create requests of a run with fairness
LiveCalls == 1
\* delete requests over a run
MaxDeletes == 1
\* injected failures (a SQL statement or an Azure call that raises) over a run
MaxFaults == 1
\* requests for statistics over a run
MaxStats == 1
\* the clock runs from 0 to MaxTime, in steps of ClockStep minutes
MaxTime == 30
ClockStep == 15

(***************************************************************************)
(* Program constants.                                                      *)
(***************************************************************************)
\* CONTAINER_LIMITS['max_global_instances']; 50 in the source, scaled down so
\* that three requests can reach the limit
max_global_instances == 2
\* timedelta(minutes=15)
TTL == 15
\* keys of CHALLENGES
CHALLENGES == {"eaas", "vuln-app"}
\* deleted rows counted with the creating and running ones
NOT_REMOVED == {"creating", "running", "deleted"}

\* status IN ('creating', 'running')
ACTIVE == {"creating", "running"}

\* inputs of the requests
Users == {1, 2}
ChallengeIds == CHALLENGES \cup {"bogus"}
\* the values str(uuid.uuid4())[:8] and secrets.token_hex(8) can return: the
\* draws are independent of every earlier draw, so a value can come again
Uuids == {"7c9e6679"}
HexSuffixes == {"0f3a9c1d5e7b2468", "a1b2c3d4e5f60718"}
NoName == <<>>

\* f"cornell-{challenge_id}-{user_uuid}-{hex_suffix}"
ContainerName(challenge_id, user_uuid, hex_suffix) ==
    <<"cornell", challenge_id, user_uuid, hex_suffix>>

AllNames ==
    {ContainerName(ch, u, h) : ch \in CHALLENGES, u \in Uuids, h \in HexSuffixes}

VARIABLES
    \* rows of instancer_instances, in order of their AUTO_INCREMENT id
    instances,
    \* names of the container groups that exist at the provider
    azure,
    \* names begin_delete was called with
    begin_delete_log,
    \* self.container_client is not None
    container_client,
    \* the create requests, in order of arrival, each with its position
    calls,
    \* the delete requests, in order of arrival, each with its position
    dels,
    \* the cleanup thread: position, the rows its query returned, next row
    reaper,
    \* the clock (minutes)
    now,
    \* failures injected so far
    faults,
    \* the requests for statistics, in order of arrival, each with its position
    stats

vars == <<instances, azure, begin_delete_log, container_client, calls, dels,
          reaper, now, faults, stats>>

(***************************************************************************)
(* Registry queries, as the SQL states them.                               *)
(***************************************************************************)
Rows(db) == 1..Len(db)

\* SELECT COUNT(*) ... WHERE status IN ('creating', 'running')
CountActive(db) ==
    Cardinality({i \in Rows(db) : db[i].status \in ACTIVE})

\* SELECT COUNT(*) ... WHERE user_id = .. AND challenge_id = .. AND status IN (..); count > 0
HasActive(db, user_id, challenge_id) ==
    \E i \in Rows(db) : /\ db[i].user_id = user_id
                        /\ db[i].challenge_id = challenge_id
                        /\ db[i].status \in ACTIVE

\* container_name VARCHAR(255) UNIQUE NOT NULL
NameTaken(db, name) == \E i \in Rows(db) : db[i].container_name = name

\* INSERT INTO instancer_instances (...) VALUES (.., 'running', expires_at);
\* created_at takes DEFAULT CURRENT_TIMESTAMP
InsertRunning(db, user_id, challenge_id, name, expires_at, created_at) ==
    Append(db, [user_id |-> user_id, challenge_id |-> challenge_id,
                container_name |-> name, status |-> "running",
                created_at |-> created_at, expires_at |-> expires_at])

\* an UPDATE that writes another status over whatever the row holds
MarkRemovedOwned(db, user_id, name) ==
    [i \in Rows(db) |->
        IF db[i].user_id = user_id /\ db[i].container_name = name
        THEN [db[i] EXCEPT !.status = "removed"]
        ELSE db[i]]

\* UPDATE ... SET status = 'deleted' WHERE user_id = .. AND container_name = ..
MarkDeletedOwned(db, user_id, name) ==
    [i \in Rows(db) |->
        IF db[i].user_id = user_id /\ db[i].container_name = name
        THEN [db[i] EXCEPT !.status = "deleted"] ELSE db[i]]

\* a DELETE of the row in place of the UPDATE
RemoveNamed(db, name) ==
    SelectSeq(db, LAMBDA row : row.container_name # name)

\* UPDATE ... SET status = 'deleted' WHERE container_name = ..
MarkDeletedNamed(db, name) ==
    [i \in Rows(db) |->
        IF db[i].container_name = name
        THEN [db[i] EXCEPT !.status = "deleted"] ELSE db[i]]

RECURSIVE ExpiredFrom(_, _, _)
\* SELECT ... WHERE status IN ('creating', 'running') AND expires_at <= NOW()
\* the container names of the rows, in id order from row i on
ExpiredFrom(db, t, i) ==
    IF i > Len(db) THEN <<>>
    ELSE IF db[i].status \in ACTIVE /\ db[i].expires_at <= t
         THEN <<db[i].container_name>> \o ExpiredFrom(db, t, i + 1)
         ELSE ExpiredFrom(db, t, i + 1)

\* the query without its condition on expires_at
ListActive(db, t) == ExpiredFrom(db, MaxTime + TTL, 1)

ListExpired(db, t) == ExpiredFrom(db, t, 1)

(***************************************************************************)
(* A statement or call may raise while failures are left to inject.        *)
(***************************************************************************)
Outcomes == IF faults < MaxFaults THEN {TRUE, FALSE} ELSE {TRUE}
Spend(ok) == IF ok THEN faults ELSE faults + 1

Init ==
    /\ instances = <<>>
    /\ azure = {}
    /\ begin_delete_log = {}
    /\ container_client \in BOOLEAN
    /\ calls = <<>>
    /\ dels = <<>>
    /\ reaper = [pc |-> "sleep", batch |-> <<>>, idx |-> 1]
    /\ now = 0
    /\ faults = 0
    /\ stats = <<>>

(***************************************************************************)
(* POST /create_instance: create_instance and create_challenge_instance.   *)
(***************************************************************************)
\* the check of the challenge id left out
AnyChallenge(challenge_id) == TRUE

\* challenge_id in CHALLENGES
ValidChallenge(challenge_id) == challenge_id \in CHALLENGES

\* earlier requests of the same user and challenge that have returned success
ReturnedSuccess(user_id, challenge_id) ==
    {i \in 1..Len(calls) : /\ calls[i].user_id = user_id
                           /\ calls[i].challenge_id = challenge_id
                           /\ calls[i].result = "success"}

\* get_global_instance_count: the count, or 0 when the query raises
GlobalInstanceCount(ok) == IF ok THEN CountActive(instances) ELSE 0

\* current_global_count >= max_global_instances
AtCapacity(count) == count >= max_global_instances

\* a request that has returned no capacity error
NoError == <<>>

\* the capacity message without its numbers
CapacityErrorBare(count) == [error_type |-> "capacity_limit"]

\* the dict returned at capacity: the message holds current_global_count and
\* max_global_instances
CapacityError(count) ==
    [error_type |-> "capacity_limit", current |-> count,
     max |-> max_global_instances]

\* the request arrives: the route draws user_uuid; create_challenge_instance
\* checks the challenge id and the client, which read no shared table, then
\* queries the global count and compares it with the limit
CreateBegin(user_id, challenge_id, user_uuid) ==
    LET call == [user_id |-> user_id, challenge_id |-> challenge_id,
                 user_uuid |-> user_uuid, pc |-> "owner", count |-> 0,
                 container_name |-> NoName, expires_at |-> 0,
                 result |-> "none", gw |-> "none", stored |-> FALSE,
                 after |-> ReturnedSuccess(user_id, challenge_id),
                 error |-> NoError, provisions |-> 0]
    IN
    /\ IF ~ValidChallenge(challenge_id)
       THEN /\ calls' = Append(calls,
                  [call EXCEPT !.pc = "done", !.result = "invalid_challenge"])
            /\ UNCHANGED faults
       ELSE IF ~container_client
       THEN /\ calls' = Append(calls,
                  [call EXCEPT !.pc = "done", !.result = "no_azure"])
            /\ UNCHANGED faults
       ELSE \E ok \in Outcomes :
              LET count == GlobalInstanceCount(ok) IN
              /\ calls' = Append(calls,
                    IF AtCapacity(count)
                    THEN [call EXCEPT !.pc = "done", !.count = count,
                                      !.result = "capacity_limit",
                                      !.error = CapacityError(count)]
                    ELSE [call EXCEPT !.count = count])
              /\ faults' = Spend(ok)
    /\ UNCHANGED <<instances, azure, begin_delete_log, container_client, dels,
                   reaper, now>>
    /\ UNCHANGED stats

\* user_has_active_instance: count > 0, or False when the query raises
UserHasActiveInstance(ok, user_id, challenge_id) ==
    IF ok THEN HasActive(instances, user_id, challenge_id) ELSE FALSE

\* the uniqueness check, then generate_hex_suffix and the container name
UserHasActive(c) ==
    /\ calls[c].pc = "owner"
    /\ \E ok \in Outcomes :
        /\ IF UserHasActiveInstance(ok, calls[c].user_id, calls[c].challenge_id)
           THEN calls' = [calls EXCEPT ![c] =
                    [@ EXCEPT !.pc = "done", !.result = "already_active"]]
           ELSE \E hex_suffix \in HexSuffixes :
                  calls' = [calls EXCEPT ![c] =
                    [@ EXCEPT !.pc = "provision",
                              !.container_name =
                                  ContainerName(calls[c].challenge_id,
                                                calls[c].user_uuid, hex_suffix)]]
        /\ faults' = Spend(ok)
    /\ UNCHANGED <<instances, azure, begin_delete_log, container_client, dels,
                   reaper, now>>
    /\ UNCHANGED stats

\* the error of the provider swallowed: the request goes on to store the row
CreationContinues(call) ==
    [call EXCEPT !.pc = "store", !.gw = "raised", !.expires_at = now + TTL]

\* the except clause calling the provider again
CreationRetried(call) ==
    [call EXCEPT !.pc = "provision", !.gw = "raised"]

\* the except clause of create_challenge_instance
CreationFailed(call) ==
    [call EXCEPT !.pc = "done", !.gw = "raised", !.result = "creation_failed"]

\* begin_create_or_update, time.sleep(2), then the clock is read for
\* expires_at; when the call raises the provider may still have taken the
\* request.  Only instances that expire within the clock's range are started.
\* provisions counts the calls of begin_create_or_update of the request.
Provision(c) ==
    /\ calls[c].pc = "provision"
    /\ now + TTL <= MaxTime
    /\ \E ok \in Outcomes :
        /\ IF ok
           THEN /\ azure' = azure \cup {calls[c].container_name}
                /\ calls' = [calls EXCEPT ![c] =
                      [@ EXCEPT !.pc = "store", !.gw = "accepted",
                                !.expires_at = now + TTL,
                                !.provisions = @ + 1]]
           ELSE /\ \E landed \in BOOLEAN :
                     azure' = IF landed
                              THEN azure \cup {calls[c].container_name}
                              ELSE azure
                /\ calls' = [calls EXCEPT ![c] =
                      CreationFailed([@ EXCEPT !.provisions = @ + 1])]
        /\ faults' = Spend(ok)
    /\ UNCHANGED <<instances, begin_delete_log, container_client, dels,
                   reaper, now>>
    /\ UNCHANGED stats

\* store_instance: the INSERT raises on a duplicate container_name or on a
\* database error, store_instance prints the error and returns; the request
\* then returns success
StoreInstance(c) ==
    /\ calls[c].pc = "store"
    /\ \E ok \in Outcomes :
        LET inserted == ok /\ ~NameTaken(instances, calls[c].container_name) IN
        /\ instances' =
              IF inserted
              THEN InsertRunning(instances, calls[c].user_id,
                                 calls[c].challenge_id, calls[c].container_name,
                                 calls[c].expires_at, now)
              ELSE instances
        /\ calls' = [calls EXCEPT ![c] =
              [@ EXCEPT !.pc = "done", !.stored = inserted,
                        !.result = "success"]]
        /\ faults' = Spend(ok)
    /\ UNCHANGED <<azure, begin_delete_log, container_client, dels, reaper, now>>
    /\ UNCHANGED stats

(***************************************************************************)
(* POST /delete_instance: delete_instance.                                 *)
(***************************************************************************)
\* the row of that user and name is already 'deleted' when the request arrives
AlreadyDeleted(user_id, name) ==
    \E i \in Rows(instances) : /\ instances[i].user_id = user_id
                               /\ instances[i].container_name = name
                               /\ instances[i].status = "deleted"

\* the request arrives and begin_delete is called (skipped without a client);
\* an error of the call is printed and the request goes on
DeleteAzure(user_id, name) ==
    /\ LET del == [user_id |-> user_id, container_name |-> name,
                   pc |-> "update", result |-> "none", gw |-> "skipped",
                   was_deleted |-> AlreadyDeleted(user_id, name)]
       IN IF container_client
          THEN \E ok \in Outcomes :
                 /\ azure' = IF ok THEN azure \ {name} ELSE azure
                 /\ begin_delete_log' = begin_delete_log \cup {name}
                 /\ dels' = Append(dels,
                       [del EXCEPT !.gw = IF ok THEN "called" ELSE "raised"])
                 /\ faults' = Spend(ok)
          ELSE /\ dels' = Append(dels, del)
               /\ UNCHANGED <<azure, begin_delete_log, faults>>
    /\ UNCHANGED <<instances, container_client, calls, reaper, now>>
    /\ UNCHANGED stats

\* an error of begin_delete reaching the caller
DeleteReturnsStrict(gw, ok) ==
    IF ok /\ gw # "raised" THEN "true" ELSE "false"

\* return True after the UPDATE, return False in the except clause: the
\* outcome of begin_delete plays no part
DeleteReturns(gw, ok) == IF ok THEN "true" ELSE "false"

\* the UPDATE; True when it ran, False when it raised
DeleteUpdate(d) ==
    /\ dels[d].pc = "update"
    /\ \E ok \in Outcomes :
        /\ instances' =
              IF ok
              THEN MarkDeletedOwned(instances, dels[d].user_id,
                                    dels[d].container_name)
              ELSE instances
        /\ dels' = [dels EXCEPT ![d] =
              [@ EXCEPT !.pc = "done",
                        !.result = DeleteReturns(dels[d].gw, ok)]]
        /\ faults' = Spend(ok)
    /\ UNCHANGED <<azure, begin_delete_log, container_client, calls, reaper, now>>
    /\ UNCHANGED stats

(***************************************************************************)
(* The cleanup thread: cleanup_worker and cleanup_expired_instances.       *)
(***************************************************************************)
ReaperIdle == [pc |-> "sleep", batch |-> <<>>, idx |-> 1]

\* time.sleep(30), then the query for expired rows; a query that raises ends
\* the cycle
ReaperQuery ==
    /\ reaper.pc = "sleep"
    /\ \E ok \in Outcomes :
        LET batch == IF ok THEN ListExpired(instances, now) ELSE <<>> IN
        /\ reaper' = IF batch = <<>> THEN ReaperIdle
                     ELSE [pc |-> "azure", batch |-> batch, idx |-> 1]
        /\ faults' = Spend(ok)
    /\ UNCHANGED <<instances, azure, begin_delete_log, container_client, calls,
                   dels, now>>
    /\ UNCHANGED stats

\* begin_delete for the next row of the cycle; an error is printed
ReaperDelete ==
    /\ reaper.pc = "azure"
    /\ LET name == reaper.batch[reaper.idx] IN
       IF container_client
       THEN \E ok \in Outcomes :
              /\ azure' = IF ok THEN azure \ {name} ELSE azure
              /\ begin_delete_log' = begin_delete_log \cup {name}
              /\ faults' = Spend(ok)
       ELSE UNCHANGED <<azure, begin_delete_log, faults>>
    /\ reaper' = [reaper EXCEPT !.pc = "update"]
    /\ UNCHANGED <<instances, container_client, calls, dels, now>>
    /\ UNCHANGED stats

\* an UPDATE that raises ending the thread
AfterUpdateUncaught(r, ok) ==
    IF ~ok THEN [pc |-> "stopped", batch |-> <<>>, idx |-> 1]
    ELSE IF r.idx < Len(r.batch)
    THEN [r EXCEPT !.pc = "azure", !.idx = r.idx + 1]
    ELSE ReaperIdle

\* where the cycle goes after the UPDATE of a row: on to the next row, and to
\* sleep after the last row or when the UPDATE raised
AfterUpdate(r, ok) ==
    IF ok /\ r.idx < Len(r.batch)
    THEN [r EXCEPT !.pc = "azure", !.idx = r.idx + 1]
    ELSE ReaperIdle

\* the UPDATE for that row
ReaperUpdate ==
    /\ reaper.pc = "update"
    /\ \E ok \in Outcomes :
        /\ instances' =
              IF ok
              THEN MarkDeletedNamed(instances, reaper.batch[reaper.idx])
              ELSE instances
        /\ reaper' = AfterUpdate(reaper, ok)
        /\ faults' = Spend(ok)
    /\ UNCHANGED <<azure, begin_delete_log, container_client, calls, dels, now>>
    /\ UNCHANGED stats

\* time passes, up to the end of the clock's range
Tick ==
    /\ now < MaxTime
    /\ now' = IF now + ClockStep <= MaxTime THEN now + ClockStep ELSE MaxTime
    /\ UNCHANGED <<instances, azure, begin_delete_log, container_client, calls,
                   dels, reaper, faults>>
    /\ UNCHANGED stats

(***************************************************************************)
(* GET /stats: get_instance_stats, one step for each of its queries.       *)
(***************************************************************************)
\* SELECT challenge_id, COUNT(*) ... WHERE status IN (..) GROUP BY challenge_id;
\* a challenge without a row has no key in by_challenge, here the count 0
CountByChallenge(db) ==
    [ch \in CHALLENGES |->
        Cardinality({i \in Rows(db) : /\ db[i].status \in ACTIVE
                                      /\ db[i].challenge_id = ch})]

\* SELECT status, COUNT(*) ... WHERE status IN (..) GROUP BY status; read
\* with by_status.get(status, 0)
CountByStatus(db) ==
    [st \in ACTIVE |-> Cardinality({i \in Rows(db) : db[i].status = st})]

\* SELECT COUNT(DISTINCT user_id) ... WHERE status IN (..)
CountUsers(db) ==
    Cardinality({db[i].user_id : i \in {k \in Rows(db) : db[k].status \in ACTIVE}})

\* max(0, max_global_instances - total_count)
AvailableSlots(total_count) ==
    IF max_global_instances - total_count > 0
    THEN max_global_instances - total_count ELSE 0

\* the comparison with > in place of >=
IsOverCapacity(total_count) == total_count > max_global_instances

\* total_count >= max_global_instances
IsAtCapacity(total_count) == total_count >= max_global_instances

\* a request that has not returned
NoStats == <<>>

\* the dict returned after the queries
StatsResult(total_count, by_challenge, by_status, users_count) ==
    [active_count |-> total_count,
     creating_count |-> by_status["creating"],
     running_count |-> by_status["running"],
     active_users |-> users_count,
     max_allowed |-> max_global_instances,
     available_slots |-> AvailableSlots(total_count),
     by_challenge |-> by_challenge,
     is_at_capacity |-> IsAtCapacity(total_count)]

\* the dict returned by the except clause
StatsFallback ==
    [active_count |-> 0, creating_count |-> 0, running_count |-> 0,
     active_users |-> 0, max_allowed |-> max_global_instances,
     available_slots |-> max_global_instances,
     by_challenge |-> [ch \in CHALLENGES |-> 0],
     is_at_capacity |-> FALSE]

\* the request after a query has raised
StatsFailed(st) == [st EXCEPT !.pc = "done", !.failed = TRUE,
                              !.result = StatsFallback]

\* the request arrives and runs the query of the total count
StatsTotal ==
    /\ Len(stats) < MaxStats
    /\ \E ok \in Outcomes :
        LET st == [pc |-> "by_challenge", total_count |-> CountActive(instances),
                   by_challenge |-> [ch \in CHALLENGES |-> 0],
                   by_status |-> [x \in ACTIVE |-> 0], users_count |-> 0,
                   failed |-> FALSE, result |-> NoStats]
        IN /\ stats' = Append(stats,
                 IF ok THEN st
                 ELSE StatsFailed([st EXCEPT !.total_count = 0]))
           /\ faults' = Spend(ok)
    /\ UNCHANGED <<instances, azure, begin_delete_log, container_client, calls,
                   dels, reaper, now>>

\* the query of the counts by challenge
StatsByChallenge(s) ==
    /\ stats[s].pc = "by_challenge"
    /\ \E ok \in Outcomes :
        /\ stats' = [stats EXCEPT ![s] =
              IF ok THEN [@ EXCEPT !.pc = "by_status",
                                   !.by_challenge = CountByChallenge(instances)]
              ELSE StatsFailed(@)]
        /\ faults' = Spend(ok)
    /\ UNCHANGED <<instances, azure, begin_delete_log, container_client, calls,
                   dels, reaper, now>>

\* the query of the counts by status
StatsByStatus(s) ==
    /\ stats[s].pc = "by_status"
    /\ \E ok \in Outcomes :
        /\ stats' = [stats EXCEPT ![s] =
              IF ok THEN [@ EXCEPT !.pc = "users",
                                   !.by_status = CountByStatus(instances)]
              ELSE StatsFailed(@)]
        /\ faults' = Spend(ok)
    /\ UNCHANGED <<instances, azure, begin_delete_log, container_client, calls,
                   dels, reaper, now>>

\* the query of the users with an instance, then the query of the users
\* table, which reads no state of the instancer, and the return
StatsUsers(s) ==
    /\ stats[s].pc = "users"
    /\ \E ok \in Outcomes :
        /\ stats' = [stats EXCEPT ![s] =
              IF ok
              THEN [@ EXCEPT !.pc = "done",
                             !.users_count = CountUsers(instances),
                             !.result = StatsResult(stats[s].total_count,
                                                    stats[s].by_challenge,
                                                    stats[s].by_status,
                                                    CountUsers(instances))]
              ELSE StatsFailed(@)]
        /\ faults' = Spend(ok)
    /\ UNCHANGED <<instances, azure, begin_delete_log, container_client, calls,
                   dels, reaper, now>>

\* a new create request, while the run has requests left
Create ==
    /\ Len(calls) < MaxCalls
    /\ \E u \in Users, ch \in ChallengeIds, id \in Uuids : CreateBegin(u, ch, id)

\* a new delete request, while the run has requests left
Delete ==
    /\ Len(dels) < MaxDeletes
    /\ \E u \in Users, n \in AllNames : DeleteAzure(u, n)

Next ==
    \/ Create
    \/ \E c \in 1..Len(calls) : UserHasActive(c)
    \/ \E c \in 1..Len(calls) : Provision(c)
    \/ \E c \in 1..Len(calls) : StoreInstance(c)
    \/ Delete
    \/ \E d \in 1..Len(dels) : DeleteUpdate(d)
    \/ ReaperQuery
    \/ ReaperDelete
    \/ ReaperUpdate
    \/ Tick

Spec == Init /\ [][Next]_vars

(***************************************************************************)
(* A burst of create requests on an empty table, with a database and a     *)
(* provider that never fail: no delete request, and the cleanup thread     *)
(* finds nothing to do before the requests have returned.                  *)
(***************************************************************************)
BurstInit ==
    /\ instances = <<>>
    /\ azure = {}
    /\ begin_delete_log = {}
    /\ container_client \in BOOLEAN
    /\ calls = <<>>
    /\ dels = <<>>
    /\ reaper = [pc |-> "sleep", batch |-> <<>>, idx |-> 1]
    /\ now = 0
    /\ faults = MaxFaults
    /\ stats = <<>>

BurstCreate ==
    /\ Len(calls) < BurstCalls
    /\ \E u \in Users, ch \in ChallengeIds, id \in Uuids : CreateBegin(u, ch, id)

BurstNext ==
    \/ BurstCreate
    \/ \E c \in 1..Len(calls) : UserHasActive(c)
    \/ \E c \in 1..Len(calls) : Provision(c)
    \/ \E c \in 1..Len(calls) : StoreInstance(c)

Burst == BurstInit /\ [][BurstNext]_vars

(***************************************************************************)
(* The requests and the cleanup thread with time passing, each step taken  *)
(* when it stays possible: a request that has arrived runs to its return,  *)
(* the cleanup thread keeps cycling and the clock keeps advancing.         *)
(***************************************************************************)
LiveCreate ==
    /\ Len(calls) < LiveCalls
    /\ \E u \in Users, ch \in ChallengeIds, id \in Uuids : CreateBegin(u, ch, id)

LiveNext ==
    \/ LiveCreate
    \/ \E c \in 1..Len(calls) : UserHasActive(c)
    \/ \E c \in 1..Len(calls) : Provision(c)
    \/ \E c \in 1..Len(calls) : StoreInstance(c)
    \/ ReaperQuery
    \/ ReaperDelete
    \/ ReaperUpdate
    \/ Tick

Live ==
    /\ Init
    /\ [][LiveNext]_vars
    /\ WF_vars(\E c \in 1..Len(calls) : UserHasActive(c))
    /\ WF_vars(\E c \in 1..Len(calls) : Provision(c))
    /\ WF_vars(\E c \in 1..Len(calls) : StoreInstance(c))
    /\ WF_vars(ReaperQuery)
    /\ WF_vars(ReaperDelete)
    /\ WF_vars(ReaperUpdate)
    /\ WF_vars(Tick)

(***************************************************************************)
(* Requests for statistics while create requests are running; the database *)
(* may fail.                                                               *)
(***************************************************************************)
WatchCreate ==
    /\ Len(calls) < MaxCalls
    /\ \E u \in Users, ch \in ChallengeIds, id \in Uuids : CreateBegin(u, ch, id)

WatchNext ==
    \/ WatchCreate
    \/ \E c \in 1..Len(calls) : UserHasActive(c)
    \/ \E c \in 1..Len(calls) : Provision(c)
    \/ \E c \in 1..Len(calls) : StoreInstance(c)
    \/ StatsTotal
    \/ \E s \in 1..Len(stats) : StatsByChallenge(s)
    \/ \E s \in 1..Len(stats) : StatsByStatus(s)
    \/ \E s \in 1..Len(stats) : StatsUsers(s)

Watch == Init /\ [][WatchNext]_vars

(***************************************************************************)
(* POST /admin/delete_instance: an admin posts a container name and a user *)
(* id; delete_instance_admin hands both to delete_instance.                *)
(***************************************************************************)
DeleteInstanceAdmin(container_name, user_id) ==
    DeleteAzure(user_id, container_name)

\* a new admin delete request, while the run has requests left
AdminDelete ==
    /\ Len(dels) < MaxDeletes
    /\ \E n \in AllNames, u \in Users : DeleteInstanceAdmin(n, u)

AdminNext ==
    \/ LiveCreate
    \/ \E c \in 1..Len(calls) : UserHasActive(c)
    \/ \E c \in 1..Len(calls) : Provision(c)
    \/ \E c \in 1..Len(calls) : StoreInstance(c)
    \/ AdminDelete
    \/ \E d \in 1..Len(dels) : DeleteUpdate(d)

Admin == Init /\ [][AdminNext]_vars

(***************************************************************************)
(* Properties.                                                             *)
(***************************************************************************)

\* C1: in every reachable state the number of rows with status creating or
\* running is at most max_global_instances.  Checked on bursts of create
\* requests with no failure of the database or the provider.
C1_ActiveWithinLimit ==
    CountActive(instances) <= max_global_instances

\* C2: in every reachable state, for every user and challenge at most one row
\* has status creating or running.  Checked on bursts of create requests with
\* no failure of the database or the provider.
C2_OneActivePerOwnerChallenge ==
    \A i \in Rows(instances), j \in Rows(instances) :
        ( /\ i # j
          /\ instances[i].user_id = instances[j].user_id
          /\ instances[i].challenge_id = instances[j].challenge_id
          /\ instances[i].status \in ACTIVE )
        => instances[j].status \notin ACTIVE

\* C3: with max_global_instances = 2, an empty table and a provider that
\* accepts every request, three create requests for three distinct
\* (user, challenge) pairs, given three distinct container names, end with
\* exactly two of them returning success and one the capacity error.
C3_TwoOfThreeSucceed ==
    ( /\ max_global_instances = 2
      /\ container_client
      /\ Len(calls) = 3
      /\ \A c \in 1..3 : /\ calls[c].pc = "done"
                         /\ calls[c].challenge_id \in CHALLENGES
      /\ \A c \in 1..3, e \in 1..3 :
            c # e => /\ <<calls[c].user_id, calls[c].challenge_id>>
                          # <<calls[e].user_id, calls[e].challenge_id>>
                     /\ calls[c].container_name = NoName
                          \/ calls[c].container_name # calls[e].container_name )
    => /\ Cardinality({c \in 1..3 : calls[c].result = "success"}) = 2
       /\ Cardinality({c \in 1..3 : calls[c].result = "capacity_limit"}) = 1

\* C4: a create request that arrives after a request of the same user and
\* challenge has returned success, whose instance no delete request and no
\* cleanup cycle has touched, returns the already-active error, stores no
\* row and makes no call to the provider.
C4_SecondCreateRejected ==
    \A c \in 1..Len(calls) :
        ( /\ calls[c].pc = "done"
          /\ \E e \in calls[c].after :
                /\ calls[e].container_name \notin begin_delete_log
                /\ \A i \in Rows(instances) :
                      instances[i].container_name = calls[e].container_name
                      => instances[i].status # "deleted" )
        => /\ calls[c].result = "already_active"
           /\ calls[c].gw = "none"
           /\ ~calls[c].stored

\* C5: no two create requests hand the same container name to the provider's
\* begin_create_or_update.
C5_NamesNeverReused ==
    \A c \in 1..Len(calls), e \in 1..Len(calls) :
        (c # e /\ calls[c].gw # "none" /\ calls[e].gw # "none")
        => calls[c].container_name # calls[e].container_name

\* C6: every container name under which the provider has accepted a create
\* request eventually is the name of a row with status deleted, when the
\* cleanup thread keeps cycling and time advances.
C6_EveryInstanceEventuallyDeleted ==
    \A n \in AllNames :
        (\E c \in 1..Len(calls) :
            calls[c].gw = "accepted" /\ calls[c].container_name = n)
        ~> (\E i \in Rows(instances) :
               instances[i].container_name = n /\ instances[i].status = "deleted")

\* C7: when a cleanup cycle ends, every row its query returned as expired is
\* deleted; stated for the rows other than one whose own UPDATE raised.
C7_ReapedByEndOfCycle ==
    [][ (reaper.pc = "update" /\ reaper'.pc = "sleep")
        => \A k \in 1..Len(reaper.batch) :
              k # reaper.idx
              => \A i \in Rows(instances') :
                    instances'[i].container_name = reaper.batch[k]
                    => instances'[i].status = "deleted" ]_vars

\* C8: a delete request for a row that is already deleted makes no call to
\* the provider's begin_delete and returns True.
C8_DeleteOfDeletedHasNoEffect ==
    \A d \in 1..Len(dels) :
        dels[d].was_deleted
        => /\ dels[d].gw = "skipped"
           /\ dels[d].pc = "done" => dels[d].result = "true"

C10_UnknownChallengeRejectedFirst ==
    \A c \in 1..Len(calls) :
        calls[c].challenge_id \notin CHALLENGES
        => /\ calls[c].pc = "done"
           /\ calls[c].result = "invalid_challenge"
           /\ calls[c].count = 0
           /\ calls[c].container_name = NoName
           /\ calls[c].gw = "none"
           /\ ~calls[c].stored

\* the third request of a burst has an unknown challenge id and the table
\* holds max_global_instances running rows stored by the first two
C10_Witness ==
    /\ Len(calls) = 3
    /\ calls[3].challenge_id \notin CHALLENGES
    /\ calls[3].result = "invalid_challenge"
    /\ calls[1].stored /\ calls[2].stored
    /\ CountActive(instances) = max_global_instances

\* C11: a delete request of a user for a container name of which that user
\* has no row (rows are never removed, so it had none when the request
\* arrived) makes no call to the provider's begin_delete for that name.
C11_DeleteOfUnownedCallsNoProvider ==
    \A d \in 1..Len(dels) :
        (~\E i \in Rows(instances) :
             /\ instances[i].user_id = dels[d].user_id
             /\ instances[i].container_name = dels[d].container_name)
        => dels[d].gw = "skipped"

\* C12: a delete request of a user for a row of that user, whose call to
\* the provider's begin_delete raised, returns failure to the caller, and the
\* row has status deleted when it returns.
C12_FailedDeprovisionReported ==
    \A d \in 1..Len(dels) :
        ( /\ dels[d].gw = "raised"
          /\ dels[d].pc = "done"
          /\ \E i \in Rows(instances) :
                /\ instances[i].user_id = dels[d].user_id
                /\ instances[i].container_name = dels[d].container_name )
        => /\ dels[d].result = "false"
           /\ \A i \in Rows(instances) :
                 ( /\ instances[i].user_id = dels[d].user_id
                   /\ instances[i].container_name = dels[d].container_name )
                 => instances[i].status = "deleted"

\* C13: a create request that is rejected at capacity returns an error
\* holding the count of creating and running rows its check read, which is
\* at least max_global_instances, and max_global_instances itself.
C13_CapacityErrorCarriesCountAndMax ==
    [][ ( /\ Len(calls') = Len(calls) + 1
          /\ calls'[Len(calls')].result = "capacity_limit" )
        => /\ calls'[Len(calls')].error =
                 [error_type |-> "capacity_limit",
                  current |-> CountActive(instances),
                  max |-> max_global_instances]
           /\ CountActive(instances) >= max_global_instances ]_vars

\* a request has been rejected at capacity with max_global_instances rows
\* running
C13_Witness ==
    \E c \in 1..Len(calls) :
        /\ calls[c].result = "capacity_limit"
        /\ calls[c].error # NoError
        /\ calls[c].count = max_global_instances
        /\ CountActive(instances) >= max_global_instances

\* C14: a row with status deleted or failed keeps that status in every step
\* of a create request, a delete request (the admin delete calls the same
\* delete_instance) and the cleanup thread.
C14_DeletedIsTerminal ==
    [][ \A i \in Rows(instances) :
          instances[i].status \in {"deleted", "failed"}
          => /\ i \in Rows(instances')
             /\ instances'[i].status = instances[i].status ]_vars

\* a delete request for a row that the cleanup thread had already marked
\* deleted has run its UPDATE, and the row is deleted
C14_Witness ==
    \E d \in 1..Len(dels) :
        /\ dels[d].was_deleted
        /\ dels[d].pc = "done"
        /\ dels[d].result = "true"
        /\ \E i \in Rows(instances) :
              /\ instances[i].user_id = dels[d].user_id
              /\ instances[i].container_name = dels[d].container_name
              /\ instances[i].status = "deleted"

\* C15: no step of a create request, a delete request or the cleanup thread
\* removes a row: every row stays at its id with its user, challenge,
\* container name and creation time.
C15_RowsNeverRemoved ==
    [][ /\ Len(instances') >= Len(instances)
        /\ \A i \in Rows(instances) :
              /\ instances'[i].user_id = instances[i].user_id
              /\ instances'[i].challenge_id = instances[i].challenge_id
              /\ instances'[i].container_name = instances[i].container_name
              /\ instances'[i].created_at = instances[i].created_at ]_vars

\* a delete request has marked a running row of its user deleted, and the
\* row is in the table
C15_Witness ==
    \E i \in Rows(instances), d \in 1..Len(dels) :
        /\ dels[d].pc = "done"
        /\ dels[d].result = "true"
        /\ ~dels[d].was_deleted
        /\ dels[d].user_id = instances[i].user_id
        /\ dels[d].container_name = instances[i].container_name
        /\ instances[i].status = "deleted"
        /\ instances[i].expires_at > now

\* C16: every create request has called the provider's
\* begin_create_or_update at most once, and a request whose call raised has
\* returned without another call.
C16_ProvisionAtMostOnce ==
    \A c \in 1..Len(calls) :
        /\ calls[c].provisions <= 1
        /\ calls[c].gw = "raised"
           => calls[c].pc = "done" /\ calls[c].provisions = 1

\* a request whose call to the provider raised has returned the
\* creation-failed error after that one call
C16_Witness ==
    \E c \in 1..Len(calls) :
        /\ calls[c].gw = "raised"
        /\ calls[c].pc = "done"
        /\ calls[c].result = "creation_failed"
        /\ calls[c].provisions = 1

\* C17: once a create request has called the provider's
\* begin_create_or_update, the table holds a row of its container name (the
\* row is inserted, as creating, before the call).
C17_RowInsertedBeforeProvision ==
    \A c \in 1..Len(calls) :
        calls[c].gw # "none"
        => \E i \in Rows(instances) :
              instances[i].container_name = calls[c].container_name

\* C18: a create request that has returned success has inserted the running
\* row of the container name it returned.
C18_SuccessMeansStored ==
    \A c \in 1..Len(calls) :
        calls[c].result = "success" => calls[c].stored

\* C19: a create request whose query of the global count raised, or whose
\* query of the user's active rows raised, returns at that step and goes on
\* to no container name and no provider call.
C19_AdmissionFailsClosed ==
    [][ /\ ( /\ Len(calls') = Len(calls) + 1
              /\ faults' # faults )
           => calls'[Len(calls')].pc = "done"
        /\ \A c \in 1..Len(calls) :
              ( /\ calls[c].pc = "owner"
                /\ calls'[c].pc # "owner"
                /\ faults' # faults )
              => calls'[c].pc = "done" ]_vars

\* C20: when a cleanup cycle ends, begin_delete has been called for the
\* container name of every row its query returned, and every such row is
\* deleted, whether its begin_delete raised or not; stated for the rows other
\* than one whose own UPDATE raised.
C20_EveryExpiredDeprovisionedAndMarked ==
    [][ (reaper.pc = "update" /\ reaper'.pc = "sleep")
        => \A k \in 1..Len(reaper.batch) :
              /\ reaper.batch[k] \in begin_delete_log'
              /\ k # reaper.idx
                 => \A i \in Rows(instances') :
                       instances'[i].container_name = reaper.batch[k]
                       => instances'[i].status = "deleted" ]_vars

\* C21: a cleanup cycle ends only after the last row its query returned:
\* neither a begin_delete that raises nor an UPDATE that raises on one row
\* keeps the cycle from going on to the rows after it.
C21_CycleReachesEveryRow ==
    [][ (reaper.pc # "sleep" /\ reaper'.pc = "sleep")
        => reaper.idx = Len(reaper.batch) ]_vars

\* C22: an UPDATE of the cleanup thread changes the status only of a row
\* that is named by the cycle's query, is creating or running and has
\* expires_at <= now, and it changes the expires_at of no row.
C22_ReaperDeletesOnlyExpired ==
    [][ (reaper.pc = "update" /\ reaper' # reaper)
        => /\ Len(instances') = Len(instances)
           /\ \A i \in Rows(instances) :
                 /\ instances'[i].expires_at = instances[i].expires_at
                 /\ instances'[i].status # instances[i].status
                    => /\ instances[i].container_name = reaper.batch[reaper.idx]
                       /\ instances[i].status \in ACTIVE
                       /\ instances[i].expires_at <= now
                       /\ instances'[i].status = "deleted" ]_vars

\* the cleanup thread has marked an expired row deleted and is back asleep
C22_Witness ==
    /\ reaper.pc = "sleep"
    /\ \E i \in Rows(instances) :
          /\ instances[i].status = "deleted"
          /\ instances[i].expires_at <= now
          /\ instances[i].container_name \in begin_delete_log

\* C23: the cleanup thread is back at its sleep again and again, whatever
\* raised in a cycle, and a row that is creating or running with
\* expires_at <= now is deleted by a later cycle.
C23_ReaperNeverStops ==
    /\ []<>(reaper.pc = "sleep")
    /\ \A i \in 1..LiveCalls :
          ( /\ i \in Rows(instances)
            /\ instances[i].status \in ACTIVE
            /\ instances[i].expires_at <= now )
          ~> (i \in Rows(instances) /\ instances[i].status = "deleted")

\* a cycle has ended with its UPDATE raising: begin_delete was called for an
\* expired row, the row is still running and the thread is asleep
C23_Witness ==
    /\ reaper.pc = "sleep"
    /\ \E i \in Rows(instances) :
          /\ instances[i].status \in ACTIVE
          /\ instances[i].expires_at <= now
          /\ instances[i].container_name \in begin_delete_log

\* C24: while the cleanup thread is working on a row, a delete request of
\* the row's user for the same container name whose UPDATE runs returns True
\* and leaves the row deleted, whatever its begin_delete did; and an UPDATE
\* of the cleanup thread that runs on a container name of a delete request
\* leaves the row deleted and the cycle going.
C24_ReaperAndDeleteRace ==
    [][ /\ \A d \in 1..Len(dels) :
              ( /\ dels[d].pc = "update"
                /\ dels'[d].pc = "done"
                /\ faults' = faults
                /\ reaper.pc # "sleep"
                /\ reaper.batch[reaper.idx] = dels[d].container_name )
              => /\ dels'[d].result = "true"
                 /\ \A i \in Rows(instances') :
                       ( /\ instances'[i].user_id = dels[d].user_id
                         /\ instances'[i].container_name = dels[d].container_name )
                       => instances'[i].status = "deleted"
        /\ ( /\ reaper.pc = "update"
              /\ reaper' # reaper
              /\ faults' = faults
              /\ \E d \in 1..Len(dels) :
                    dels[d].container_name = reaper.batch[reaper.idx] )
           => /\ reaper'.pc \in {"sleep", "azure"}
              /\ \A i \in Rows(instances') :
                    instances'[i].container_name = reaper.batch[reaper.idx]
                    => instances'[i].status = "deleted" ]_vars

\* a delete request of the owner has returned True while the cleanup thread
\* stands before the UPDATE of the same row, both having called begin_delete
C24_Witness ==
    \E d \in 1..Len(dels), i \in Rows(instances) :
        /\ dels[d].pc = "done"
        /\ dels[d].result = "true"
        /\ dels[d].gw # "skipped"
        /\ ~dels[d].was_deleted
        /\ reaper.pc = "update"
        /\ reaper.batch[reaper.idx] = dels[d].container_name
        /\ instances[i].user_id = dels[d].user_id
        /\ instances[i].container_name = dels[d].container_name
        /\ instances[i].status = "deleted"

C26_StatsProjection ==
    [][ /\ stats' # stats => instances' = instances
        /\ ( /\ Len(stats') = Len(stats) + 1
              /\ ~stats'[Len(stats')].failed )
           => stats'[Len(stats')].total_count =
                 Cardinality({i \in Rows(instances) :
                                instances[i].status \in {"creating", "running"}})
        /\ \A s \in 1..Len(stats) :
              ( /\ stats[s].pc # "done"
                /\ stats'[s].pc = "done"
                /\ ~stats'[s].failed )
              => LET active == stats[s].total_count
                     result == stats'[s].result
                 IN /\ result.active_count = active
                    /\ result.max_allowed = max_global_instances
                    /\ result.available_slots =
                          IF active >= max_global_instances THEN 0
                          ELSE max_global_instances - active
                    /\ result.is_at_capacity
                          <=> (active >= max_global_instances) ]_vars

\* a request has returned at capacity: max_global_instances rows are running
\* and it reports no available slot
C26_Witness ==
    \E s \in 1..Len(stats) :
        /\ stats[s].pc = "done"
        /\ ~stats[s].failed
        /\ stats[s].result.active_count = max_global_instances
        /\ stats[s].result.available_slots = 0
        /\ stats[s].result.is_at_capacity
        /\ CountActive(instances) = max_global_instances

\* C30: in every result returned by a request for statistics,
\* creating_count + running_count = active_count and the counts of
\* by_challenge sum to active_count.
C30_StatsConsistent ==
    \A s \in 1..Len(stats) :
        stats[s].pc = "done"
        => /\ stats[s].result.creating_count + stats[s].result.running_count
                = stats[s].result.active_count
           /\ stats[s].result.by_challenge["eaas"]
                + stats[s].result.by_challenge["vuln-app"]
                = stats[s].result.active_count

\* C27: an admin delete request that returns True has left every row of
\* the container name it posted deleted, whichever user id it posted.
C27_AdminDeleteNotScopedByOwner ==
    [][ \A d \in 1..Len(dels) :
          ( /\ dels[d].pc = "update"
            /\ dels'[d].pc = "done"
            /\ dels'[d].result = "true" )
          => \A i \in Rows(instances') :
                instances'[i].container_name = dels[d].container_name
                => instances'[i].status = "deleted" ]_vars

\* C28: every row has expires_at = created_at + TTL.
C28_ExpiresAtIsCreatedAtPlusTTL ==
    \A i \in Rows(instances) :
        instances[i].expires_at = instances[i].created_at + TTL

\* C29: every container name under which the provider has accepted a create
\* request eventually is a name begin_delete has been called with, when the
\* cleanup thread keeps cycling and time advances.
C29_EveryAcceptedEventuallyDeprovisioned ==
    \A n \in AllNames :
        (\E c \in 1..Len(calls) :
            calls[c].gw = "accepted" /\ calls[c].container_name = n)
        ~> (n \in begin_delete_log)

TypeOK ==
    /\ now \in 0..MaxTime
    /\ faults \in 0..MaxFaults
    /\ Len(calls) <= BurstCalls
    /\ Len(dels) <= MaxDeletes
    /\ Len(stats) <= MaxStats
====
